---- MODULE Spec2Model ----
(***************************************************************************)
(* A model of the crossword constraint-satisfaction engine of generate.py  *)
(* (class CrosswordCreator): node consistency, revise, AC-3, the           *)
(* consistency check, the two search heuristics and backtracking search.   *)
(*                                                                         *)
(* Representation.  A word is the tuple of its letters, so that w[k + 1]   *)
(* is Python's w[k].  A Python set or dict is represented by the           *)
(* duplicate-free sequence of its elements (keys) in iteration order; the  *)
(* order is unspecified by the language and is chosen nondeterministically *)
(* when the container is built.  A dict is a sequence of <<key, value>>    *)
(* entries in insertion order.                                             *)
(***************************************************************************)
EXTENDS Integers, Sequences, FiniteSets, TLC

VARIABLES crossword, domains, pc, queue, arc, revised, ac3Result, stack,
          result, last

vars == <<crossword, domains, pc, queue, arc, revised, ac3Result, stack,
          result, last>>

(***************************************************************************)
(* Bounds of the model.                                                    *)
(***************************************************************************)
\* The largest vocabulary (number of words in the word list) explored.
MaxWords == 3

\* The longest list of arcs handed to ac3.
MaxArcs == 1

(***************************************************************************)
(* Generic helpers on sequences.                                           *)
(***************************************************************************)
Range(s) == {s[k] : k \in DOMAIN s}

\* All duplicate-free sequences enumerating the finite set S.
Orderings(S) ==
    {s \in [1..Cardinality(S) -> S] : \A a, b \in DOMAIN s : a # b => s[a] # s[b]}

\* list.remove(v): delete the first occurrence of v.
RECURSIVE ListRemove(_, _)
ListRemove(s, v) ==
    IF s = <<>> THEN <<>>
    ELSE IF Head(s) = v THEN Tail(s)
    ELSE <<Head(s)>> \o ListRemove(Tail(s), v)

(***************************************************************************)
(* The puzzle description (module crossword, imported by generate.py).     *)
(***************************************************************************)
ACROSS == "across"
DOWN == "down"

\* Grid structures: the fillable cells of a height x width grid.
Structures ==
    { \* one row of three cells: a single horizontal slot
      [height |-> 1, width |-> 3,
       cells |-> {<<0, 0>>, <<0, 1>>, <<0, 2>>}],
      \* an L: a horizontal and a vertical slot of length 3 sharing cell (0, 0)
      [height |-> 3, width |-> 3,
       cells |-> {<<0, 0>>, <<0, 1>>, <<0, 2>>, <<1, 0>>, <<2, 0>>}],
      \* an H: two vertical slots joined by a horizontal slot through their middles
      [height |-> 3, width |-> 3,
       cells |-> {<<0, 0>>, <<1, 0>>, <<2, 0>>, <<1, 1>>,
                  <<0, 2>>, <<1, 2>>, <<2, 2>>}],
      \* a T: a horizontal slot of length 3 crossed at its middle by a slot of length 2
      [height |-> 2, width |-> 3,
       cells |-> {<<0, 0>>, <<0, 1>>, <<0, 2>>, <<1, 1>>}],
      \* two slots that share no cell, of lengths 2 and 3
      [height |-> 3, width |-> 3,
       cells |-> {<<0, 0>>, <<0, 1>>, <<2, 0>>, <<2, 1>>, <<2, 2>>}] }

\* Number of consecutive fillable cells from (i, j) in direction (di, dj).
RECURSIVE RunLength(_, _, _, _, _)
RunLength(s, i, j, di, dj) ==
    IF <<i, j>> \in s.cells THEN 1 + RunLength(s, i + di, j + dj, di, dj) ELSE 0

\* The slots of a structure: maximal runs of fillable cells, runs of one cell excluded.
VariablesOf(s) ==
    {[i |-> c[1], j |-> c[2], direction |-> DOWN,
      length |-> RunLength(s, c[1], c[2], 1, 0)] :
        c \in {d \in s.cells : /\ <<d[1] - 1, d[2]>> \notin s.cells
                               /\ RunLength(s, d[1], d[2], 1, 0) > 1}}
    \cup
    {[i |-> c[1], j |-> c[2], direction |-> ACROSS,
      length |-> RunLength(s, c[1], c[2], 0, 1)] :
        c \in {d \in s.cells : /\ <<d[1], d[2] - 1>> \notin s.cells
                               /\ RunLength(s, d[1], d[2], 0, 1) > 1}}

\* Variable.cells: the cells of a slot, in word order.
Cells(v) ==
    [k \in 1..v.length |->
        <<v.i + (IF v.direction = DOWN THEN k - 1 ELSE 0),
          v.j + (IF v.direction = ACROSS THEN k - 1 ELSE 0)>>]

\* The value None of Crossword.overlaps[v1, v2]: no shared cell.
NoOverlap == <<>>

\* Crossword.overlaps[v1, v2]: NoOverlap, or the zero-based offsets <<i, j>> of the
\* shared cell in v1 and in v2.
Overlaps(v1, v2) ==
    LET c1 == Cells(v1)
        c2 == Cells(v2)
        common == Range(c1) \cap Range(c2)
    IN  IF common = {} THEN NoOverlap
        ELSE LET c == CHOOSE d \in common : TRUE
             IN  <<(CHOOSE k \in DOMAIN c1 : c1[k] = c) - 1,
                   (CHOOSE k \in DOMAIN c2 : c2[k] = c) - 1>>

\* The keys of Crossword.overlaps in insertion order: every ordered pair of
\* distinct variables, outer and inner loop both over the variable set.
RECURSIVE PairsFrom(_, _, _)
PairsFrom(vs, a, b) ==
    IF a > Len(vs) THEN <<>>
    ELSE IF b > Len(vs) THEN PairsFrom(vs, a + 1, 1)
    ELSE (IF a = b THEN <<>> ELSE <<(<<vs[a], vs[b]>>)>>) \o PairsFrom(vs, a, b + 1)

OverlapKeys == PairsFrom(crossword.variables, 1, 1)

\* Crossword.neighbors(var): the variables overlapping var.
Neighbors(var) ==
    {v \in Range(crossword.variables) : v # var /\ Overlaps(v, var) # NoOverlap}

\* The word list: every vocabulary is a subset of it of at most MaxWords words.
Words ==
    { <<"c", "a", "t">>, <<"d", "o", "g">>, <<"c", "o", "t">>,
      <<"a", "c", "t">>, <<"a", "t", "e">>, <<"t", "a", "t">>,
      <<"o", "x">>, <<"t", "o">> }

Vocabularies == {W \in SUBSET Words : Cardinality(W) <= MaxWords}

(***************************************************************************)
(* CrosswordCreator: the engine.                                           *)
(***************************************************************************)
\* __init__: every variable's domain is a copy of the whole vocabulary.
InitDomains(cw) == [v \in Range(cw.variables) |-> cw.words]

\* A slip in enforce_node_consistency: words shorter than the slot are kept.
NodeConsistentAtMost(d) ==
    [v \in DOMAIN d |-> SelectSeq(d[v], LAMBDA w : Len(w) <= v.length)]

\* enforce_node_consistency: keep, in order, the words as long as the slot.
NodeConsistent(d) ==
    [v \in DOMAIN d |-> SelectSeq(d[v], LAMBDA w : Len(w) = v.length)]

\* The loop of revise over x_domain.copy(): todo is the rest of the copy.
RECURSIVE ReviseLoop(_, _, _, _, _, _)
ReviseLoop(todo, x_domain, y_domain, overlap_x, overlap_y, rev) ==
    IF todo = <<>> THEN [x_domain |-> x_domain, revised |-> rev]
    ELSE LET val_x == Head(todo)
             has_corresponding_value ==
                 \E k \in DOMAIN y_domain :
                     val_x[overlap_x + 1] = y_domain[k][overlap_y + 1]
         IN  IF ~has_corresponding_value
             THEN ReviseLoop(Tail(todo), ListRemove(x_domain, val_x), y_domain,
                             overlap_x, overlap_y, TRUE)
             ELSE ReviseLoop(Tail(todo), x_domain, y_domain,
                             overlap_x, overlap_y, rev)

\* A slip in revise: the two offsets of the overlap are exchanged.
ReviseSwappedOffsets(d, x, y) ==
    LET overlap == Overlaps(x, y)
    IN  IF overlap = NoOverlap THEN [domains |-> d, revised |-> FALSE]
        ELSE LET r == ReviseLoop(d[x], d[x], d[y], overlap[2], overlap[1], FALSE)
             IN  [domains |-> [d EXCEPT ![x] = r.x_domain], revised |-> r.revised]

\* A slip in revise: a word of x is kept only if every word of y agrees with
\* it at the shared cell.
ReviseAllMustAgree(d, x, y) ==
    LET overlap == Overlaps(x, y)
    IN  IF overlap = NoOverlap THEN [domains |-> d, revised |-> FALSE]
        ELSE LET x_domain ==
                     SelectSeq(d[x], LAMBDA val_x :
                         \A k \in DOMAIN d[y] :
                             val_x[overlap[1] + 1] = d[y][k][overlap[2] + 1])
             IN  [domains |-> [d EXCEPT ![x] = x_domain],
                  revised |-> x_domain # d[x]]

\* revise(x, y) on the domain store d: the new store and the returned flag.
Revise(d, x, y) ==
    LET overlap == Overlaps(x, y)
    IN  IF overlap = NoOverlap THEN [domains |-> d, revised |-> FALSE]
        ELSE LET r == ReviseLoop(d[x], d[x], d[y], overlap[1], overlap[2], FALSE)
             IN  [domains |-> [d EXCEPT ![x] = r.x_domain], revised |-> r.revised]

\* An assignment is a dict: the sequence of its <<variable, word>> entries.
Keys(assignment) == {assignment[k][1] : k \in DOMAIN assignment}

Value(assignment, var) ==
    assignment[CHOOSE k \in DOMAIN assignment : assignment[k][1] = var][2]

\* assignment_complete: every variable of the domain store is assigned.
AssignmentComplete(assignment) ==
    \A variable \in DOMAIN domains : variable \in Keys(assignment)

\* The first loop of consistent, from entry k on: lengths and repeated words.
RECURSIVE ValuesOk(_, _, _)
ValuesOk(assignment, k, assigned_values) ==
    IF k > Len(assignment) THEN TRUE
    ELSE IF \/ assignment[k][1].length # Len(assignment[k][2])
            \/ assignment[k][2] \in assigned_values
         THEN FALSE
         ELSE ValuesOk(assignment, k + 1, assigned_values \cup {assignment[k][2]})

\* The second loop of consistent, from key k of the overlaps on: shared letters.
RECURSIVE OverlapsOk(_, _, _)
OverlapsOk(assignment, keys, k) ==
    IF k > Len(keys) THEN TRUE
    ELSE LET var1 == keys[k][1]
             var2 == keys[k][2]
             overlap_positions == Overlaps(var1, var2)
         IN  IF /\ var1 \in Keys(assignment)
                /\ var2 \in Keys(assignment)
                /\ overlap_positions # NoOverlap
                /\ Value(assignment, var1)[overlap_positions[1] + 1]
                     # Value(assignment, var2)[overlap_positions[2] + 1]
             THEN FALSE
             ELSE OverlapsOk(assignment, keys, k + 1)

\* A slip in consistent: the loop over the overlaps is missing.
ConsistentValuesOnly(assignment) == ValuesOk(assignment, 1, {})

\* A slip in consistent: repeated words are not rejected.
ConsistentAllowRepeats(assignment) ==
    IF \E k \in DOMAIN assignment : assignment[k][1].length # Len(assignment[k][2])
    THEN FALSE
    ELSE OverlapsOk(assignment, OverlapKeys, 1)

\* A slip in consistent: a repeated word is rejected only between overlapping slots.
ConsistentOverlappingRepeats(assignment) ==
    IF \E k \in DOMAIN assignment : assignment[k][1].length # Len(assignment[k][2])
    THEN FALSE
    ELSE IF \E k, m \in DOMAIN assignment :
                /\ k # m
                /\ Overlaps(assignment[k][1], assignment[m][1]) # NoOverlap
                /\ assignment[k][2] = assignment[m][2]
         THEN FALSE
         ELSE OverlapsOk(assignment, OverlapKeys, 1)

\* consistent(assignment).
Consistent(assignment) ==
    IF ~ValuesOk(assignment, 1, {}) THEN FALSE
    ELSE \E keys \in {OverlapKeys} : OverlapsOk(assignment, keys, 1)

\* A slip in count_eliminated_values: == for !=, the agreeing words counted.
SumOverAgreeing(S, value, var) ==
    Cardinality({p \in UNION {{<<neighbor, k>> : k \in DOMAIN domains[neighbor]} :
                                neighbor \in S} :
                    LET overlap == Overlaps(var, p[1])
                    IN  /\ overlap # NoOverlap
                        /\ domains[p[1]][p[2]][overlap[2] + 1] = value[overlap[1] + 1]})

\* count_eliminated_values(value, var) of order_domain_values: the loop over
\* the neighbours S, one count for every position of a neighbour's domain
\* whose word differs from value at the shared cell.
SumOver(S, value, var) ==
    Cardinality({p \in UNION {{<<neighbor, k>> : k \in DOMAIN domains[neighbor]} :
                                neighbor \in S} :
                    LET overlap == Overlaps(var, p[1])
                    IN  /\ overlap # NoOverlap
                        /\ domains[p[1]][p[2]][overlap[2] + 1] # value[overlap[1] + 1]})

CountEliminatedValues(value, var, assignment) ==
    SumOver(Neighbors(var) \ Keys(assignment), value, var)

\* Python's order on sort keys: integers as one-element tuples, tuples
\* lexicographically.
RECURSIVE KeyLeq(_, _)
KeyLeq(a, b) ==
    IF a = <<>> THEN TRUE
    ELSE IF Head(a) # Head(b) THEN Head(a) < Head(b)
    ELSE KeyLeq(Tail(a), Tail(b))

\* list.sort(key) on the <<key, element>> pairs of a list: a stable sort, each
\* entry inserted after the entries whose key is not larger.
RECURSIVE InsertByKey(_, _)
InsertByKey(sorted, e) ==
    IF sorted = <<>> THEN <<e>>
    ELSE IF KeyLeq(Head(sorted)[1], e[1])
         THEN <<Head(sorted)>> \o InsertByKey(Tail(sorted), e)
         ELSE <<e>> \o sorted

RECURSIVE SortPairs(_)
SortPairs(s) ==
    IF s = <<>> THEN <<>>
    ELSE InsertByKey(SortPairs(SubSeq(s, 1, Len(s) - 1)), s[Len(s)])

\* list.sort(key): the key of every element is computed once, then the pairs
\* are sorted.
SortByKey(s) ==
    CHOOSE sorted \in {SortPairs(pairs) : pairs \in {SubSeq(s, 1, Len(s))}} : TRUE

\* order_domain_values(var, assignment).
OrderDomainValues(var, assignment) ==
    LET domain == domains[var]
        keyed == [k \in DOMAIN domain |->
                     <<(<<CountEliminatedValues(domain[k], var, assignment)>>),
                       domain[k]>>]
        sorted == SortByKey(keyed)
    IN  [k \in DOMAIN sorted |-> sorted[k][2]]

\* A slip in key_function: the degree is not negated.
KeyFunctionAscendingDegree(variable) ==
    <<Len(domains[variable]), Cardinality(Neighbors(variable))>>

\* key_function of select_unassigned_variable.
KeyFunction(variable) ==
    <<Len(domains[variable]), 0 - Cardinality(Neighbors(variable))>>

\* select_unassigned_variable(assignment): the first entry of the sorted list
\* of the unassigned variables, taken in the order of the domain store.
SelectUnassignedVariable(assignment) ==
    LET unassigned_variables ==
            SelectSeq(crossword.variables, LAMBDA var : var \notin Keys(assignment))
        keyed == [k \in DOMAIN unassigned_variables |->
                     <<KeyFunction(unassigned_variables[k]), unassigned_variables[k]>>]
    IN  SortByKey(keyed)[1][2]

(***************************************************************************)
(* solve(): the run of the engine on a freshly constructed creator.        *)
(***************************************************************************)
Pending == [kind |-> "pending", value |-> <<>>]
None == [kind |-> "None", value |-> <<>>]
Returned(assignment) == [kind |-> "assignment", value |-> assignment]

\* Crossword(structure, words): the variables of structure s and the vocabulary
\* W, each in the iteration order vs, ws of its set.
Crossword(vs, ws) == [variables |-> vs, words |-> ws]

\* The state after CrosswordCreator(cw).
Construct(cw) ==
    /\ crossword = cw
    /\ domains = InitDomains(cw)
    /\ queue = <<>>
    /\ arc = <<>>
    /\ revised = FALSE
    /\ ac3Result = "pending"
    /\ stack = <<>>
    /\ result = Pending
    /\ last = [op |-> "none"]

\* main: a creator for any puzzle and vocabulary, about to run solve().
Init ==
    /\ \E s \in Structures, W \in Vocabularies :
          \E vs \in Orderings(VariablesOf(s)), ws \in Orderings(W) :
              Construct(Crossword(vs, ws))
    /\ pc = "solve"

\* solve, line 92: self.enforce_node_consistency()
EnforceNodeConsistency ==
    /\ pc = "solve"
    /\ domains' = NodeConsistent(domains)
    /\ pc' = "ac3"
    /\ UNCHANGED <<crossword, queue, arc, revised, ac3Result, stack, result, last>>

\* Where ac3 returns to: its direct caller, or line 94 of solve.
Ac3Return == IF last.op = "ac3" THEN "returned" ELSE "backtrack"

\* solve, line 93: self.ac3() with arcs = None, so the queue is list(overlaps).
Ac3Begin ==
    /\ pc = "ac3"
    /\ queue' = OverlapKeys
    /\ pc' = "ac3_loop"
    /\ UNCHANGED <<crossword, domains, arc, revised, ac3Result, stack, result, last>>

\* A slip in ac3: the arc is read as queue[-1] and stays in the queue.
Ac3PeekNoPop ==
    /\ pc = "ac3_loop"
    /\ queue # <<>>
    /\ arc' = queue[Len(queue)]
    /\ pc' = "ac3_revise"
    /\ UNCHANGED <<crossword, domains, queue, revised, ac3Result, stack, result,
                   last>>

\* ac3: x, y = queue.pop()
Ac3Pop ==
    /\ pc = "ac3_loop"
    /\ queue # <<>>
    /\ arc' = queue[Len(queue)]
    /\ queue' = SubSeq(queue, 1, Len(queue) - 1)
    /\ pc' = "ac3_revise"
    /\ UNCHANGED <<crossword, domains, revised, ac3Result, stack, result, last>>

\* A slip in ac3: the revised domain of x is stored as the domain of y.
Ac3ReviseWrongSlot ==
    /\ pc = "ac3_revise"
    /\ LET r == Revise(domains, arc[1], arc[2])
       IN  /\ domains' = [domains EXCEPT ![arc[2]] = r.domains[arc[1]]]
           /\ revised' = r.revised
    /\ pc' = "ac3_check"
    /\ UNCHANGED <<crossword, queue, arc, ac3Result, stack, result, last>>

\* ac3: if self.revise(x, y)
Ac3Revise ==
    /\ pc = "ac3_revise"
    /\ LET r == Revise(domains, arc[1], arc[2])
       IN  /\ domains' = r.domains
           /\ revised' = r.revised
    /\ pc' = "ac3_check"
    /\ UNCHANGED <<crossword, queue, arc, ac3Result, stack, result, last>>

\* ac3: no revision was made; back to the loop test.
Ac3Unrevised ==
    /\ pc = "ac3_check"
    /\ ~revised
    /\ pc' = "ac3_loop"
    /\ UNCHANGED <<crossword, domains, queue, arc, revised, ac3Result, stack,
                   result, last>>

\* A slip in ac3: the emptied domain is not reported and the loop goes on.
Ac3FailContinues ==
    /\ pc = "ac3_check"
    /\ revised
    /\ domains[arc[1]] = <<>>
    /\ pc' = "ac3_loop"
    /\ UNCHANGED <<crossword, domains, queue, arc, revised, ac3Result, stack,
                   result, last>>

\* ac3: if not self.domains[x]: return False
Ac3Fail ==
    /\ pc = "ac3_check"
    /\ revised
    /\ domains[arc[1]] = <<>>
    /\ ac3Result' = "False"
    /\ pc' = Ac3Return
    /\ UNCHANGED <<crossword, domains, queue, arc, revised, stack, result, last>>

\* A slip in ac3: the arcs into the revised variable are not enqueued again.
Ac3EnqueueNothing ==
    /\ pc = "ac3_check"
    /\ revised
    /\ domains[arc[1]] # <<>>
    /\ pc' = "ac3_loop"
    /\ UNCHANGED <<crossword, domains, queue, arc, revised, ac3Result, stack,
                   result, last>>

\* A slip in ac3: the arcs enqueued again are (x, z) instead of (z, x).
Ac3EnqueueReversed ==
    /\ pc = "ac3_check"
    /\ revised
    /\ domains[arc[1]] # <<>>
    /\ \E zs \in Orderings(Neighbors(arc[1]) \ {arc[2]}) :
           queue' = queue \o [k \in DOMAIN zs |-> <<arc[1], zs[k]>>]
    /\ last' = IF last.op = "ac3" THEN [last EXCEPT !.rounds = @ + 1] ELSE last
    /\ pc' = "ac3_loop"
    /\ UNCHANGED <<crossword, domains, arc, revised, ac3Result, stack, result>>

\* ac3: for z in neighbors(x) - {y}: queue.append((z, x)), in the set's order.
\* The record of a direct call counts the times this for loop was entered.
Ac3Enqueue ==
    /\ pc = "ac3_check"
    /\ revised
    /\ domains[arc[1]] # <<>>
    /\ \E zs \in Orderings(Neighbors(arc[1]) \ {arc[2]}) :
           queue' = queue \o [k \in DOMAIN zs |-> <<zs[k], arc[1]>>]
    /\ last' = IF last.op = "ac3" THEN [last EXCEPT !.rounds = @ + 1] ELSE last
    /\ pc' = "ac3_loop"
    /\ UNCHANGED <<crossword, domains, arc, revised, ac3Result, stack, result>>

\* ac3: the queue is empty: return True
Ac3Done ==
    /\ pc = "ac3_loop"
    /\ queue = <<>>
    /\ ac3Result' = "True"
    /\ pc' = Ac3Return
    /\ UNCHANGED <<crossword, domains, queue, arc, revised, stack, result, last>>

\* A call of backtrack(assignment): a new frame at the entry of the function.
Entry(assignment) == [at |-> "entry", assignment |-> assignment]

Top == stack[Len(stack)]

Pop == SubSeq(stack, 1, Len(stack) - 1)

\* solve, line 94: self.backtrack(dict())
BacktrackBegin ==
    /\ pc = "backtrack"
    /\ stack' = <<Entry(<<>>)>>
    /\ pc' = "search"
    /\ UNCHANGED <<crossword, domains, queue, arc, revised, ac3Result, result, last>>

\* backtrack: if self.assignment_complete(assignment): return assignment
BacktrackComplete ==
    /\ pc = "search"
    /\ stack # <<>>
    /\ result = Pending
    /\ Top.at = "entry"
    /\ AssignmentComplete(Top.assignment)
    /\ result' = Returned(Top.assignment)
    /\ stack' = Pop
    /\ UNCHANGED <<crossword, domains, pc, queue, arc, revised, ac3Result, last>>

\* backtrack: var = select_unassigned_variable(assignment) and the evaluation
\* of order_domain_values(var, assignment) at the head of the for loop.
BacktrackSelect ==
    /\ pc = "search"
    /\ stack # <<>>
    /\ result = Pending
    /\ Top.at = "entry"
    /\ ~AssignmentComplete(Top.assignment)
    /\ \E var \in {SelectUnassignedVariable(Top.assignment)} :
          \E values \in {OrderDomainValues(var, Top.assignment)} :
              stack' = [stack EXCEPT ![Len(stack)] =
                           [at |-> "loop", assignment |-> Top.assignment,
                            var |-> var, values |-> values]]
    /\ UNCHANGED <<crossword, domains, pc, queue, arc, revised, ac3Result, result,
                   last>>

\* A slip in backtrack: the recursive call is given assignment, not
\* new_assignment.
BacktrackTrySameAssignment ==
    /\ pc = "search"
    /\ stack # <<>>
    /\ result = Pending
    /\ Top.at = "loop"
    /\ Top.values # <<>>
    /\ LET value == Head(Top.values)
           new_assignment == Append(Top.assignment, <<Top.var, value>>)
           advanced == [stack EXCEPT ![Len(stack)].values = Tail(Top.values)]
       IN  stack' = IF Consistent(new_assignment)
                    THEN Append(advanced, Entry(Top.assignment))
                    ELSE advanced
    /\ UNCHANGED <<crossword, domains, pc, queue, arc, revised, ac3Result, result,
                   last>>

\* A slip in backtrack: the assignment itself is extended, not a copy of it.
BacktrackTryInPlace ==
    /\ pc = "search"
    /\ stack # <<>>
    /\ result = Pending
    /\ Top.at = "loop"
    /\ Top.values # <<>>
    /\ LET value == Head(Top.values)
           new_assignment == Append(Top.assignment, <<Top.var, value>>)
           advanced == [stack EXCEPT ![Len(stack)].values = Tail(Top.values),
                                     ![Len(stack)].assignment = new_assignment]
       IN  stack' = IF Consistent(new_assignment)
                    THEN Append(advanced, Entry(new_assignment))
                    ELSE advanced
    /\ UNCHANGED <<crossword, domains, pc, queue, arc, revised, ac3Result, result,
                   last>>

\* backtrack: one iteration of the for loop: extend a copy of the assignment
\* and, if it is consistent, call backtrack on it.
BacktrackTry ==
    /\ pc = "search"
    /\ stack # <<>>
    /\ result = Pending
    /\ Top.at = "loop"
    /\ Top.values # <<>>
    /\ LET value == Head(Top.values)
           new_assignment == Append(Top.assignment, <<Top.var, value>>)
           advanced == [stack EXCEPT ![Len(stack)].values = Tail(Top.values)]
       IN  stack' = IF Consistent(new_assignment)
                    THEN Append(advanced, Entry(new_assignment))
                    ELSE advanced
    /\ UNCHANGED <<crossword, domains, pc, queue, arc, revised, ac3Result, result,
                   last>>

\* A slip in backtrack: the exhausted loop returns the assignment it was given.
BacktrackExhaustedReturnsAssignment ==
    /\ pc = "search"
    /\ stack # <<>>
    /\ result = Pending
    /\ stack[Len(stack)].at = "loop"
    /\ stack[Len(stack)].values = <<>>
    /\ result' = Returned(stack[Len(stack)].assignment)
    /\ stack' = SubSeq(stack, 1, Len(stack) - 1)
    /\ UNCHANGED <<crossword, domains, pc, queue, arc, revised, ac3Result, last>>

\* backtrack: the for loop is exhausted: return None
BacktrackExhausted ==
    /\ pc = "search"
    /\ stack # <<>>
    /\ result = Pending
    /\ Top.at = "loop"
    /\ Top.values = <<>>
    /\ result' = None
    /\ stack' = Pop
    /\ UNCHANGED <<crossword, domains, pc, queue, arc, revised, ac3Result, last>>

\* A slip in backtrack: the result of the recursive call is returned even
\* when it is None, so no other candidate is tried.
BacktrackResumeReturns ==
    /\ pc = "search"
    /\ stack # <<>>
    /\ result = None
    /\ stack' = SubSeq(stack, 1, Len(stack) - 1)
    /\ UNCHANGED <<crossword, domains, pc, queue, arc, revised, ac3Result, result,
                   last>>

\* backtrack: the recursive call returned None: the loop goes on.
BacktrackResume ==
    /\ pc = "search"
    /\ stack # <<>>
    /\ result = None
    /\ result' = Pending
    /\ UNCHANGED <<crossword, domains, pc, queue, arc, revised, ac3Result, stack,
                   last>>

\* backtrack: if result is not None: return result
BacktrackPropagate ==
    /\ pc = "search"
    /\ stack # <<>>
    /\ result.kind = "assignment"
    /\ stack' = Pop
    /\ UNCHANGED <<crossword, domains, pc, queue, arc, revised, ac3Result, result,
                   last>>

\* solve returns what the outermost backtrack call returned.
SolveReturn ==
    /\ pc = "search"
    /\ stack = <<>>
    /\ result # Pending
    /\ pc' = "done"
    /\ UNCHANGED <<crossword, domains, queue, arc, revised, ac3Result, stack, result,
                   last>>

Next ==
    \/ EnforceNodeConsistency
    \/ Ac3Begin
    \/ Ac3Pop
    \/ Ac3Revise
    \/ Ac3Unrevised
    \/ Ac3Fail
    \/ Ac3Enqueue
    \/ Ac3Done
    \/ BacktrackBegin
    \/ BacktrackComplete
    \/ BacktrackSelect
    \/ BacktrackTry
    \/ BacktrackExhausted
    \/ BacktrackResume
    \/ BacktrackPropagate
    \/ SolveReturn

Spec == Init /\ [][Next]_vars

(***************************************************************************)
(* Direct calls of the engine's methods on a constructed creator.  The     *)
(* variable last records the latest call: its arguments, the domain store  *)
(* before it and the value it returned.                                    *)
(***************************************************************************)
\* One iteration order of a set, for a call whose outcome does not depend on
\* the order.
OneOrdering(S) == CHOOSE o \in Orderings(S) : TRUE

\* The creator has been constructed and none of its methods has run.  Neither
\* enforce_node_consistency nor revise depends on the order of the variables,
\* which is taken in one order; the vocabulary is taken in every order.
InitCalls ==
    /\ \E s \in Structures, W \in Vocabularies :
          \E ws \in Orderings(W) :
              Construct(Crossword(OneOrdering(VariablesOf(s)), ws))
    /\ pc = "fresh"

\* enforce_node_consistency(), at any time.
CallEnforceNodeConsistency ==
    /\ pc \in {"fresh", "ready"}
    /\ domains' = NodeConsistent(domains)
    /\ last' = [op |-> "enforce_node_consistency", before |-> domains,
                again |-> (pc = "ready")]
    /\ pc' = "ready"
    /\ UNCHANGED <<crossword, queue, arc, revised, ac3Result, stack, result>>

\* revise(x, y) for any two distinct variables, once the domains are node
\* consistent (revise indexes every word at the overlap offsets).
CallRevise ==
    /\ pc = "ready"
    /\ \E x, y \in Range(crossword.variables) :
          /\ x # y
          /\ LET r == Revise(domains, x, y)
             IN  /\ domains' = r.domains
                 /\ last' = [op |-> "revise", x |-> x, y |-> y, before |-> domains,
                             ret |-> r.revised]
    /\ UNCHANGED <<crossword, pc, queue, arc, revised, ac3Result, stack, result>>

NextCalls ==
    \/ CallEnforceNodeConsistency
    \/ CallRevise

SpecCalls == InitCalls /\ [][NextCalls]_vars

\* Every dict whose keys are variables of the puzzle and whose values are
\* words of the vocabulary, with every insertion order of the keys.
Assignments ==
    UNION {{[k \in DOMAIN ks |-> <<ks[k], ws[k]>>] :
                ks \in Orderings(K),
                ws \in [1..Cardinality(K) -> Range(crossword.words)]} :
           K \in SUBSET Range(crossword.variables)}

\* consistent reads the puzzle and its argument only: the vocabulary is taken
\* in one iteration order.
InitConsistent ==
    /\ \E s \in Structures, W \in Vocabularies :
          \E vs \in Orderings(VariablesOf(s)) :
              Construct(Crossword(vs, OneOrdering(W)))
    /\ pc = "idle"

\* consistent(assignment) for any assignment; it changes no state, so one
\* call is followed per behaviour.
CallConsistent ==
    /\ pc = "idle"
    /\ pc' = "called"
    /\ \E assignment \in Assignments :
           last' = [op |-> "consistent", assignment |-> assignment,
                    ret |-> Consistent(assignment)]
    /\ UNCHANGED <<crossword, domains, queue, arc, revised, ac3Result, stack,
                   result>>

SpecConsistent == InitConsistent /\ [][CallConsistent]_vars

\* The creator has been constructed; the variables are taken in every
\* iteration order (select_unassigned_variable keeps the first of equal
\* keys) and the vocabulary in one.
InitSearchCalls ==
    /\ \E s \in Structures, W \in Vocabularies :
          \E vs \in Orderings(VariablesOf(s)) :
              Construct(Crossword(vs, OneOrdering(W)))
    /\ pc = "solve"

\* select_unassigned_variable(assignment) for any assignment that leaves a
\* variable out, on the domains that ac3 has left.
CallSelectUnassignedVariable ==
    /\ pc = "backtrack"
    /\ pc' = "called"
    /\ \E assignment \in Assignments :
          /\ ~AssignmentComplete(assignment)
          /\ last' = [op |-> "select_unassigned_variable",
                      assignment |-> assignment, before |-> domains,
                      ret |-> SelectUnassignedVariable(assignment)]
    /\ UNCHANGED <<crossword, domains, queue, arc, revised, ac3Result, stack,
                   result>>

\* order_domain_values(var, assignment) for any assignment and any variable
\* it leaves out, on the domains that ac3 has left: a copy of the domain, list(self.domains[var]), is sorted
\* and returned.
CallOrderDomainValues ==
    /\ pc = "backtrack"
    /\ pc' = "called"
    /\ \E assignment \in Assignments :
          \E var \in Range(crossword.variables) \ Keys(assignment) :
              LET domain == OrderDomainValues(var, assignment)
              IN  last' = [op |-> "order_domain_values", var |-> var,
                           assignment |-> assignment, before |-> domains,
                           ret |-> domain]
    /\ UNCHANGED <<crossword, domains, queue, arc, revised, ac3Result, stack,
                   result>>

NextSearchCalls ==
    \/ EnforceNodeConsistency
    \/ Ac3Begin
    \/ Ac3Pop
    \/ Ac3Revise
    \/ Ac3Unrevised
    \/ Ac3Fail
    \/ Ac3Enqueue
    \/ Ac3Done
    \/ CallSelectUnassignedVariable
    \/ CallOrderDomainValues

SpecSearchCalls == InitSearchCalls /\ [][NextSearchCalls]_vars

\* solve() runs in one thread from its call to its return: a step that can be
\* taken is taken.  The run is followed for every iteration order of the
\* variables and one of the vocabulary.
SpecFair == InitSearchCalls /\ [][Next]_vars /\ WF_vars(Next)

\* The arcs (x, y) of two distinct variables, and the lists of at most MaxArcs
\* of them, repetitions included.
Arcs == {<<x, y>> : x, y \in Range(crossword.variables)} \
            {<<x, x>> : x \in Range(crossword.variables)}

ArcLists == UNION {[1..n -> Arcs] : n \in 0..MaxArcs}

\* The creator has been constructed; the run of ac3 is followed for one
\* iteration order of the variables and of the vocabulary.
InitAc3 ==
    /\ \E s \in Structures, W \in Vocabularies :
          Construct(Crossword(OneOrdering(VariablesOf(s)), OneOrdering(W)))
    /\ pc = "fresh"

\* ac3(arcs) on node-consistent domains: queue = arcs for any list of arcs,
\* or list(self.crossword.overlaps) when arcs is None.
CallAc3 ==
    /\ pc = "ready"
    /\ \E arcs \in ArcLists \cup {OverlapKeys} :
          /\ queue' = arcs
          /\ last' = [op |-> "ac3", arcs |-> arcs, before |-> domains, rounds |-> 0]
    /\ pc' = "ac3_loop"
    /\ UNCHANGED <<crossword, domains, arc, revised, ac3Result, stack, result>>

\* The steps of the while loop of ac3.
Ac3Step ==
    \/ Ac3Pop
    \/ Ac3Revise
    \/ Ac3Unrevised
    \/ Ac3Fail
    \/ Ac3Enqueue
    \/ Ac3Done

NextAc3 ==
    \/ CallEnforceNodeConsistency
    \/ CallAc3
    \/ Ac3Pop
    \/ Ac3Revise
    \/ Ac3Unrevised
    \/ Ac3Fail
    \/ Ac3Enqueue
    \/ Ac3Done

\* The interpreter runs the loop of a call to its end: a step of ac3 that can
\* be taken is taken.
SpecAc3 == InitAc3 /\ [][NextAc3]_vars /\ WF_vars(Ac3Step)

\* ac3(arcs = None) as one function of the domain store d and the work-list q:
\* the loop of lines 153-163, the arcs taken from the end of the list, the
\* neighbours enqueued in one order.
RECURSIVE Ac3Lifo(_, _)
Ac3Lifo(d, q) ==
    IF q = <<>> THEN [ret |-> TRUE, domains |-> d]
    ELSE LET x == q[Len(q)][1]
             y == q[Len(q)][2]
             rest == SubSeq(q, 1, Len(q) - 1)
             r == Revise(d, x, y)
             zs == OneOrdering(Neighbors(x) \ {y})
         IN  IF r.revised
             THEN IF r.domains[x] = <<>>
                  THEN [ret |-> FALSE, domains |-> r.domains]
                  ELSE Ac3Lifo(r.domains, rest \o [k \in DOMAIN zs |-> <<zs[k], x>>])
             ELSE Ac3Lifo(d, rest)

\* The run of solve() up to the return of ac3, for one iteration order of the
\* variables and of the vocabulary.
InitAnyOrder ==
    /\ \E s \in Structures, W \in Vocabularies :
          Construct(Crossword(OneOrdering(VariablesOf(s)), OneOrdering(W)))
    /\ pc = "solve"

\* ac3 with the work-list as a collection that gives up its arcs in any order:
\* the arc at any position is removed (the last one is queue.pop()).  The
\* record tells whether every arc so far was taken from the end, and whether
\* every one was taken from the front.
Ac3PopAny ==
    /\ pc = "ac3_loop"
    /\ queue # <<>>
    /\ \E i \in DOMAIN queue :
          /\ arc' = queue[i]
          /\ queue' = SubSeq(queue, 1, i - 1) \o SubSeq(queue, i + 1, Len(queue))
          /\ last' = [op |-> "order",
                      lifo |-> (last.op = "order" => last.lifo) /\ i = Len(queue),
                      fifo |-> (last.op = "order" => last.fifo) /\ i = 1]
    /\ pc' = "ac3_revise"
    /\ UNCHANGED <<crossword, domains, revised, ac3Result, stack, result>>

NextAnyOrder ==
    \/ EnforceNodeConsistency
    \/ Ac3Begin
    \/ Ac3PopAny
    \/ Ac3Revise
    \/ Ac3Unrevised
    \/ Ac3Fail
    \/ Ac3Enqueue
    \/ Ac3Done

SpecAnyOrder == InitAnyOrder /\ [][NextAnyOrder]_vars

(***************************************************************************)
(* Properties.                                                             *)
(***************************************************************************)
Slots == Range(crossword.variables)

Vocabulary == Range(crossword.words)

\* The word a dict gives a slot.
WordOf(a, v) == CHOOSE w \in {a[k][2] : k \in DOMAIN a} : \E k \in DOMAIN a : a[k] = <<v, w>>

\* The constraints of the puzzle on the slots K under the words A[v]: lengths,
\* all different, equal letters at every overlap.
Satisfies(A, K) ==
    /\ \A v \in K : Len(A[v]) = v.length
    /\ \A u, v \in K : u # v => A[u] # A[v]
    /\ \A u, v \in K :
          (u # v /\ Overlaps(u, v) # NoOverlap)
              => A[u][Overlaps(u, v)[1] + 1] = A[v][Overlaps(u, v)[2] + 1]

\* Every way to fill all the slots from the vocabulary within the constraints.
Solutions == {A \in [Slots -> Vocabulary] : Satisfies(A, Slots)}

\* Word w of slot x has a partner in the domain of the overlapping slot y.
Supported(d, x, y, w) ==
    \E v \in Range(d[y]) : w[Overlaps(x, y)[1] + 1] = v[Overlaps(x, y)[2] + 1]

\* C1: whenever solve() returns something other than None, it is a complete
\* assignment: every slot exactly once, each with a word of the vocabulary of
\* the slot's length, no word twice, equal letters at every overlap.
C1_SolveReturnsSolution ==
    (pc = "done" /\ result.kind = "assignment") =>
        LET a == result.value
        IN  /\ {a[k][1] : k \in DOMAIN a} = Slots
            /\ Len(a) = Cardinality(Slots)
            /\ [v \in Slots |-> WordOf(a, v)] \in Solutions

C1_Witness ==
    /\ pc = "done"
    /\ result.kind = "assignment"
    /\ Cardinality(Slots) = 3

\* C2: solve() returns an assignment exactly when the puzzle has a solution,
\* and None exactly when it has none.
C2_SolveComplete ==
    pc = "done" =>
        /\ (Solutions # {}) <=> (result.kind = "assignment")
        /\ (Solutions = {}) <=> (result = None)

C2_Witness ==
    /\ pc = "done"
    /\ Solutions # {}
    /\ result.kind = "assignment"
    /\ Cardinality(Slots) = 3
    /\ domains # NodeConsistent(InitDomains(crossword))

\* The puzzle of the overlap example: two slots of length 3, one horizontal and
\* one vertical, overlapping at offsets (0, 0), and the vocabulary {cat, dog}.
OverlapExample ==
    /\ Cardinality(Slots) = 2
    /\ \A v \in Slots : v.length = 3
    /\ \E h, v \in Slots :
          h.direction = ACROSS /\ v.direction = DOWN /\ Overlaps(h, v) = <<0, 0>>
    /\ Vocabulary = {<<"c", "a", "t">>, <<"d", "o", "g">>}

\* C3 as stated: on the overlap example no domain is empty after ac3 and the
\* search returns an assignment of both slots that agrees at the shared cell.
C3_Original ==
    OverlapExample =>
        /\ ac3Result # "pending" => \A v \in Slots : domains[v] # <<>>
        /\ pc = "done" =>
              /\ result.kind = "assignment"
              /\ Len(result.value) = 2
              /\ result.value[1][2][1] = result.value[2][2][1]

\* C3 amended: on the overlap example ac3 returns True with both words left in
\* both domains, and the search returns None, since the two pairs that agree at
\* the shared cell use one word twice.
C3_OverlapExampleNoSolution ==
    OverlapExample =>
        /\ ac3Result # "pending" =>
              /\ ac3Result = "True"
              /\ \A v \in Slots : Range(domains[v]) = Vocabulary
        /\ pc = "done" => result = None

C3_Witness ==
    /\ OverlapExample
    /\ pc = "done"

\* C4: once ac3 has returned False inside solve(), the search never holds an
\* assignment as a result: its only call selects a slot without candidates, so
\* it extends nothing, calls itself never, and solve() returns None.
C4_Ac3FalseSolveNone ==
    ac3Result = "False" =>
        /\ result.kind # "assignment"
        /\ pc = "done" => result = None
        /\ Len(stack) <= 1
        /\ \A k \in DOMAIN stack :
              /\ stack[k].assignment = <<>>
              /\ stack[k].at = "loop" => stack[k].values = <<>>

C4_Witness ==
    /\ ac3Result = "False"
    /\ pc = "done"
    /\ result = None
    /\ Cardinality(Slots) >= 2

\* C5: after ac3 with the default work-list on node-consistent domains has
\* returned True, every word of every slot x has a partner in the domain of
\* every slot y overlapping x.
C5_ArcConsistentAfterAc3 ==
    ac3Result = "True" =>
        \A x, y \in Slots :
            (x # y /\ Overlaps(x, y) # NoOverlap)
                => \A w \in Range(domains[x]) : Supported(domains, x, y, w)

C5_Witness ==
    /\ ac3Result = "True"
    /\ domains # NodeConsistent(InitDomains(crossword))
    /\ \E x \in Slots : Cardinality(Neighbors(x)) = 2

\* C6 as stated: when ac3 returns, it returns True exactly if no domain is empty.
C6_Original ==
    pc = "backtrack" =>
        ((ac3Result = "True") <=> (\A v \in Slots : domains[v] # <<>>))

\* C7: enforce_node_consistency leaves in every domain exactly the words of the
\* previous domain that are as long as the slot, and a later run changes nothing.
C7_NodeConsistency ==
    last.op = "enforce_node_consistency" =>
        /\ \A v \in Slots :
              /\ Range(domains[v]) = {w \in Range(last.before[v]) : Len(w) = v.length}
              /\ Len(domains[v]) = Cardinality(Range(domains[v]))
        /\ last.again => domains = last.before

C7_Witness ==
    /\ last.op = "enforce_node_consistency"
    /\ last.again
    /\ \E v \in Slots : domains[v] # <<>> /\ domains[v] # crossword.words

\* C8: consistent(assignment) is True exactly if every assigned word is as long
\* as its slot, no two assigned slots hold the same word, and every two assigned
\* overlapping slots agree at the overlap; unassigned slots play no part.
C8_ConsistentExact ==
    last.op = "consistent" =>
        LET a == last.assignment
            K == {a[k][1] : k \in DOMAIN a}
        IN  last.ret <=> Satisfies([v \in K |-> WordOf(a, v)], K)

C8_Witness ==
    /\ last.op = "consistent"
    /\ last.ret
    /\ last.assignment # <<>>
    /\ {last.assignment[k][1] : k \in DOMAIN last.assignment} # Slots

\* C9: revise(x, y) removes from x's domain exactly the words without a partner
\* in y's domain, changes no other domain, and returns True exactly if x's
\* domain changed; without an overlap it changes nothing and returns False.
C9_ReviseExact ==
    last.op = "revise" =>
        LET x == last.x
            y == last.y
        IN  /\ \A v \in Slots \ {x} : domains[v] = last.before[v]
            /\ last.ret <=> (domains[x] # last.before[x])
            /\ Overlaps(x, y) = NoOverlap => (domains = last.before /\ ~last.ret)
            /\ Overlaps(x, y) # NoOverlap =>
                  /\ Range(domains[x]) =
                        {w \in Range(last.before[x]) : Supported(last.before, x, y, w)}
                  /\ Len(domains[x]) = Cardinality(Range(domains[x]))

C9_Witness ==
    /\ last.op = "revise"
    /\ last.ret
    /\ Len(last.before[last.x]) = 1
    /\ last.before[last.y] = <<>>

\* C10: the revise step that empties x's domain reports a revision; the next
\* step of ac3 then returns False, touching neither the work-list nor a domain;
\* and once ac3 has returned False no arc is popped or enqueued and no domain
\* changes.
C10_Ac3ShortCircuit ==
    [][ /\ (pc = "ac3_revise" /\ domains[arc[1]] # <<>> /\ domains'[arc[1]] = <<>>)
            => (revised' /\ pc' = "ac3_check")
        /\ (pc = "ac3_check" /\ revised /\ domains[arc[1]] = <<>>)
            => (ac3Result' = "False" /\ pc' = "backtrack"
                /\ queue' = queue /\ domains' = domains)
        /\ ac3Result = "False"
            => (ac3Result' = "False" /\ queue' = queue /\ domains' = domains
                /\ pc' \notin {"ac3_loop", "ac3_revise", "ac3_check"}) ]_vars

C10_Witness ==
    /\ ac3Result = "False"
    /\ pc = "done"
    /\ Len(queue) >= 2

\* The number of words in all the domains of a store.
RECURSIVE TotalWordsOver(_, _)
TotalWordsOver(d, S) ==
    IF S = {} THEN 0
    ELSE LET v == CHOOSE u \in S : TRUE
         IN  Len(d[v]) + TotalWordsOver(d, S \ {v})

TotalWords(d) == TotalWordsOver(d, DOMAIN d)

\* C11: every call of ac3, on any list of arcs, comes to its return: True with
\* an empty work-list, or False; and the for loop that enqueues arcs again is
\* entered at most as many times as there were words in all the domains when
\* the call began.
C11_Ac3Terminates ==
    /\ (pc \in {"ac3_loop", "ac3_revise", "ac3_check"}) ~> (pc = "returned")
    /\ [](pc = "returned"
            => \/ ac3Result = "True" /\ queue = <<>>
               \/ ac3Result = "False")
    /\ [](last.op = "ac3" => last.rounds <= TotalWords(last.before))

\* ac3 has returned after enqueueing arcs again at least twice.
C11_Witness ==
    /\ pc = "returned"
    /\ last.op = "ac3"
    /\ last.rounds >= 2

\* C12: in whatever order ac3 takes the arcs off the work-list, it returns what
\* the run that always takes the last arc returns on the same node-consistent
\* domains and the default arcs, and when that is True every slot ends with
\* the same domain.
C12_OrderIndependent ==
    pc = "backtrack"
        => LET lifo == Ac3Lifo(NodeConsistent(InitDomains(crossword)), OverlapKeys)
           IN  /\ (ac3Result = "True") <=> lifo.ret
               /\ lifo.ret => \A v \in Slots : domains[v] = lifo.domains[v]

\* ac3 has returned True after taking the arcs neither always from the end nor
\* always from the front, and has removed a word from a domain.
C12_Witness ==
    /\ pc = "backtrack"
    /\ ac3Result = "True"
    /\ last.op = "order"
    /\ ~last.lifo
    /\ ~last.fifo
    /\ \E v \in Slots : domains[v] # NodeConsistent(InitDomains(crossword))[v]

\* C13: select_unassigned_variable returns a slot that the assignment leaves
\* out, with the fewest words in its domain among the slots left out, and with
\* the most neighbours among those of them that have that fewest words.
C13_SelectMinimumRemainingValues ==
    (pc = "called" /\ last.op = "select_unassigned_variable")
        => LET var == last.ret
               unassigned == Slots \ Keys(last.assignment)
           IN  /\ var \in unassigned
               /\ \A v \in unassigned : Len(domains[var]) <= Len(domains[v])
               /\ \A v \in unassigned :
                      Len(domains[v]) = Len(domains[var])
                          => Cardinality(Neighbors(v)) <= Cardinality(Neighbors(var))

\* select_unassigned_variable has passed over a slot that has more neighbours
\* than the slot it returns, and a larger domain.
C13_Witness ==
    /\ pc = "called"
    /\ last.op = "select_unassigned_variable"
    /\ \E u \in Slots \ Keys(last.assignment) :
          /\ Len(domains[u]) > Len(domains[last.ret])
          /\ Cardinality(Neighbors(u)) > Cardinality(Neighbors(last.ret))

\* The words of the domains of var's neighbours outside the assignment that
\* differ from value at the cell shared with var, each counted per neighbour.
Disagreeing(value, var, assignment, d) ==
    UNION {{<<n, w>> : w \in {u \in Range(d[n]) :
                          u[Overlaps(var, n)[2] + 1] # value[Overlaps(var, n)[1] + 1]}} :
           n \in Neighbors(var) \ Keys(assignment)}

\* How many times w occurs in the list s.
Occurrences(s, w) == Cardinality({k \in DOMAIN s : s[k] = w})

\* C14: order_domain_values returns the words of var's domain, each as many
\* times as the domain holds it, in non-decreasing order of the number of
\* words of the unassigned neighbours' domains that disagree with the word at
\* the shared cell; the neighbours in the assignment are not counted; the
\* domains are what they were before the call.
C14_LeastConstrainingOrder ==
    (pc = "called" /\ last.op = "order_domain_values")
        => LET count(w) ==
                   Cardinality(Disagreeing(w, last.var, last.assignment, last.before))
           IN  /\ Len(last.ret) = Len(last.before[last.var])
               /\ \A w \in Range(last.ret) \cup Range(last.before[last.var]) :
                      Occurrences(last.ret, w) = Occurrences(last.before[last.var], w)
               /\ \A j, k \in DOMAIN last.ret :
                      j < k => count(last.ret[j]) <= count(last.ret[k])
               /\ domains = last.before

\* order_domain_values has moved a word in front of one that stood before it
\* in the domain, for a slot with a neighbour in the assignment and one
\* outside it.
C14_Witness ==
    /\ pc = "called"
    /\ last.op = "order_domain_values"
    /\ last.ret # last.before[last.var]
    /\ Neighbors(last.var) \cap Keys(last.assignment) # {}
    /\ Neighbors(last.var) \ Keys(last.assignment) # {}

\* C15: from the call of backtrack by solve() to its return, no step changes
\* any slot's domain, and no step changes the assignment of a call of
\* backtrack that is on the stack before and after the step.
C15_SearchDoesNotPropagate ==
    [][(pc \in {"backtrack", "search"})
          => (/\ domains' = domains
              /\ \A k \in DOMAIN stack \cap DOMAIN stack' :
                     stack'[k].assignment = stack[k].assignment) ]_vars

\* The search is two calls deep under the first one, and the slot it gave a
\* word to first still has another word in its domain.
C15_Witness ==
    /\ pc = "search"
    /\ Len(stack) >= 3
    /\ stack[1].assignment = <<>>
    /\ Len(stack[2].assignment) = 1
    /\ Len(domains[stack[2].assignment[1][1]]) >= 2

\* C16: no step of solve() adds a word to a domain: after every step each
\* slot's domain is within its domain before the step, and at all times
\* within the vocabulary.
C16_DomainsOnlyShrink ==
    /\ [][\A v \in Slots : Range(domains'[v]) \subseteq Range(domains[v]) ]_vars
    /\ [](\A v \in Slots : Range(domains[v]) \subseteq Vocabulary)

\* solve() has returned, and a slot has lost a word to node consistency and
\* another to ac3.
C16_Witness ==
    /\ pc = "done"
    /\ \E v \in Slots :
          LET nc == NodeConsistent(InitDomains(crossword))[v]
          IN  /\ Range(nc) # Vocabulary
              /\ Range(domains[v]) # Range(nc)

\* C17: the search started by solve() on the empty assignment comes to its
\* return, with None or with an assignment; every call of backtrack made by a
\* call of backtrack is given an assignment that passes consistent() and has
\* the caller's slots and one more; so the calls nested under the first one are
\* never more than the slots.
C17_BacktrackTerminates ==
    /\ (pc = "search") ~> (pc = "done")
    /\ [](pc = "done" => stack = <<>> /\ result.kind \in {"None", "assignment"})
    /\ [](\A k \in DOMAIN stack :
             IF k = 1 THEN stack[k].assignment = <<>>
             ELSE /\ Consistent(stack[k].assignment)
                  /\ Cardinality(Keys(stack[k].assignment)) = k - 1
                  /\ \E var \in Slots \ Keys(stack[k - 1].assignment) :
                         Keys(stack[k].assignment)
                             = Keys(stack[k - 1].assignment) \cup {var})
    /\ [](Len(stack) - 1 <= Cardinality(Slots))

\* On a puzzle of three slots the search is three calls deep under the first
\* one.
C17_Witness ==
    /\ pc = "search"
    /\ Cardinality(Slots) = 3
    /\ Len(stack) = 4

\* C18: after enforce_node_consistency and after every step of ac3, up to its
\* return, the word that a solution of the puzzle gives a slot is in the
\* slot's domain, and ac3 does not return False when the puzzle has a
\* solution.
C18_PropagationKeepsSolutions ==
    pc \in {"ac3", "ac3_loop", "ac3_revise", "ac3_check", "backtrack"}
        => /\ \A A \in [Slots -> Vocabulary] :
                  (\E v \in Slots : A[v] \notin Range(domains[v]))
                      => ~Satisfies(A, Slots)
           /\ ac3Result = "False" => Solutions = {}

\* ac3 has returned True on a puzzle that has a solution, after removing a word
\* that node consistency had kept.
C18_Witness ==
    /\ pc = "backtrack"
    /\ ac3Result = "True"
    /\ Solutions # {}
    /\ \E v \in Slots : domains[v] # NodeConsistent(InitDomains(crossword))[v]

====
